---- MODULE Spec2Model ----
(***************************************************************************)
(* A model of main.py: the YouTube Music search + download Telegram bot.  *)
(*                                                                         *)
(* State: the in-memory session map user_data, the files of DOWNLOADS_DIR, *)
(* the Application's update queue and the one update handler that is in    *)
(* flight.  Strings that the code builds, scans or compares (titles, video *)
(* ids, file names) are sequences of one-character strings, so that the    *)
(* substring scans and the file-name formatting are computed, not assumed. *)
(***************************************************************************)
EXTENDS Integers, Sequences, FiniteSets, TLC

VARIABLES
    ytmusic,        \* TRUE: the YTMusic client was built; FALSE: ytmusic is None
    user_data,      \* user id -> session {results, index}, or NoSession (key absent)
    files,          \* the files of DOWNLOADS_DIR: records [name, by]
    buttons,        \* user id -> callback_data of the inline buttons sent to the user so far
    update_queue,   \* Application.update_queue: updates received and not yet dispatched
    n_updates,      \* number of updates received so far
    handler,        \* the update handler in flight (Idle when there is none)
    last,           \* history: the handler step taken since the last dispatch, and what it saw
    nav,            \* history: the latest next / next-then-prev of one requester
    returned,       \* history: the handle_download run that returned since the last dispatch
    fmt_in,         \* input of the format selector under SpecFormat
    fmt_out         \* its output under SpecFormat

vars == <<ytmusic, user_data, files, buttons, update_queue, n_updates,
          handler, last, nav, returned, fmt_in, fmt_out>>

(***************************************************************************)
(* Bounds of the model.                                                    *)
(***************************************************************************)
MaxUpdates == 4
MaxFormats == 2

Users == {1}

Min(a, b) == IF a < b THEN a ELSE b

(***************************************************************************)
(* Strings as sequences of characters.                                     *)
(***************************************************************************)
UpperChars == <<"A","B","C","D","E","F","G","H","I","J","K","L","M",
                "N","O","P","Q","R","S","T","U","V","W","X","Y","Z">>
LowerChars == <<"a","b","c","d","e","f","g","h","i","j","k","l","m",
                "n","o","p","q","r","s","t","u","v","w","x","y","z">>
DigitChars == <<"0","1","2","3","4","5","6","7","8","9">>

Range(s) == {s[i] : i \in 1..Len(s)}

\* str.lower(), one character
LowerChar(c) ==
    IF c \in Range(UpperChars)
    THEN LowerChars[CHOOSE i \in 1..Len(UpperChars) : UpperChars[i] = c]
    ELSE c

\* str.lower()
Lower(s) == [i \in 1..Len(s) |-> LowerChar(s[i])]

\* sub in s
Contains(s, sub) ==
    \E i \in 1..(Len(s) - Len(sub) + 1) : SubSeq(s, i, i + Len(sub) - 1) = sub

\* s.endswith(suf)
EndsWith(s, suf) ==
    /\ Len(suf) <= Len(s)
    /\ SubSeq(s, Len(s) - Len(suf) + 1, Len(s)) = suf

\* the characters [A-Za-z0-9 _-] that sanitize_filename keeps
KeptChars == Range(UpperChars) \cup Range(LowerChars) \cup Range(DigitChars)
                \cup {" ", "_", "-"}

\* re.sub(r'[^A-Za-z0-9 _-]', '_', title)
ReplaceOthers(s) == [i \in 1..Len(s) |-> IF s[i] \in KeptChars THEN s[i] ELSE "_"]

\* re.sub(r'\s+', ' ', s): after ReplaceOthers the only whitespace left is " "
RECURSIVE CollapseSpaces(_)
CollapseSpaces(s) ==
    IF Len(s) <= 1 THEN s
    ELSE IF s[1] = " " /\ s[2] = " " THEN CollapseSpaces(Tail(s))
    ELSE <<s[1]>> \o CollapseSpaces(Tail(s))

\* str.strip() of a string whose whitespace is " "
RECURSIVE Strip(_)
Strip(s) ==
    IF s = <<>> THEN s
    ELSE IF s[1] = " " THEN Strip(Tail(s))
    ELSE IF s[Len(s)] = " " THEN Strip(SubSeq(s, 1, Len(s) - 1))
    ELSE s

max_len == 40

sanitize_filename(title) ==
    LET s == Strip(CollapseSpaces(ReplaceOthers(title)))
    IN  SubSeq(s, 1, Min(max_len, Len(s)))

(***************************************************************************)
(* Format choosing logic.  A format is a record [ext, acodec, vcodec]; a   *)
(* key that is missing (or None) is the empty string, which is falsy.      *)
(***************************************************************************)
Truthy(x) == x # ""

CodecOrder == <<"opus", "aac", "mp3">>

CodecSelector(codec) ==
    CASE codec = "opus" -> "bestaudio[acodec=opus]/bestaudio/best"
      [] codec = "aac"  -> "bestaudio[acodec=aac]/bestaudio/best"
      [] codec = "mp3"  -> "bestaudio[acodec=mp3]/bestaudio/best"

\* the selector with the webm test put before the m4a test
choose_format_webm_first(formats) ==
    IF formats = <<>> THEN "bestaudio/best"
    ELSE
      LET exts   == {formats[i].ext : i \in {j \in 1..Len(formats) : Truthy(formats[j].ext)}}
          acodes == {formats[i].acodec : i \in {j \in 1..Len(formats) : Truthy(formats[j].acodec)}}
          hits   == {k \in 1..Len(CodecOrder) : CodecOrder[k] \in acodes}
      IN  IF "webm" \in exts THEN "bestaudio[ext=webm]/bestaudio/best"
          ELSE IF "m4a" \in exts THEN "bestaudio[ext=m4a]/bestaudio/best"
          ELSE IF hits # {}
               THEN CodecSelector(CodecOrder[CHOOSE k \in hits : \A m \in hits : k <= m])
          ELSE "bestaudio/best"

choose_format_from_formats(formats) ==
    IF formats = <<>> THEN "bestaudio/best"
    ELSE
      LET exts   == {formats[i].ext : i \in {j \in 1..Len(formats) : Truthy(formats[j].ext)}}
          acodes == {formats[i].acodec : i \in {j \in 1..Len(formats) : Truthy(formats[j].acodec)}}
          hits   == {k \in 1..Len(CodecOrder) : CodecOrder[k] \in acodes}
      IN  IF "m4a" \in exts THEN "bestaudio[ext=m4a]/bestaudio/best"
          ELSE IF "webm" \in exts THEN "bestaudio[ext=webm]/bestaudio/best"
          ELSE IF hits # {}
               THEN CodecSelector(CodecOrder[CHOOSE k \in hits : \A m \in hits : k <= m])
          ELSE IF \E i \in 1..Len(formats) : formats[i].vcodec = "none"
               THEN "bestaudio/best"
          ELSE "bestaudio/best"
(***************************************************************************)
(* The catalog (ytmusicapi) and what it may answer.  An item keeps the     *)
(* keys of a search hit that the downloads read: title and videoId.  An    *)
(* empty videoId stands for a hit without one.                             *)
(***************************************************************************)
Item1 == [title |-> <<"H","i">>,                 videoId |-> <<"x","1">>]
Item2 == [title |-> <<"a","/"," "," ","b">>,     videoId |-> <<"x","2">>]
Item3 == [title |-> <<"N","o"," ","i","d">>,     videoId |-> <<>>]
\* the video of Item1 as the catalog lists it under another title
Item4 == [title |-> <<"Y","o">>,                 videoId |-> <<"x","1">>]

\* the lists ytmusic.search may return
SearchAnswers ==
    { <<>>, <<Item1>>, <<Item4>>, <<Item2, Item1>>, <<Item1, Item3, Item2>> }

\* search_song's song_data, the keys the model follows
SongData(item) == [title |-> item.title, videoId |-> item.videoId]

ResultLimit == 5

\* results of search_song: song_data of search_results[:5]
SongList(search_results) ==
    [i \in 1..Min(ResultLimit, Len(search_results)) |-> SongData(search_results[i])]

NoSession == [results |-> <<>>, index |-> -1]
NewSession(results) == [results |-> results, index |-> 0]

\* data = user_data.get(user_id, {}); data.get("results", [])
ResultsOf(u) == IF user_data[u] = NoSession THEN <<>> ELSE user_data[u].results

(***************************************************************************)
(* Callback data: "next", "prev", "restart" and f"download_{index}".  A    *)
(* callback_data is the pair <<text before the number, decimal digits>>.   *)
(***************************************************************************)
RECURSIVE Digits(_)
\* str(n)
Digits(n) ==
    IF n < 0 THEN <<"-">> \o Digits(0 - n)
    ELSE IF n < 10 THEN <<DigitChars[n + 1]>>
    ELSE Digits(n \div 10) \o <<DigitChars[(n % 10) + 1]>>

DigitValue(c) == (CHOOSE i \in 1..Len(DigitChars) : DigitChars[i] = c) - 1

RECURSIVE ParseInt(_)
\* int(s) of a decimal numeral
ParseInt(s) ==
    IF s[1] = "-" THEN 0 - ParseInt(Tail(s))
    ELSE IF Len(s) = 1 THEN DigitValue(s[1])
    ELSE 10 * ParseInt(SubSeq(s, 1, Len(s) - 1)) + DigitValue(s[Len(s)])

\* seq[index] of a Python list: positions count from 0, a negative index
\* counts from the end, any other index raises IndexError
HasItem(seq, index) == 0 - Len(seq) <= index /\ index < Len(seq)
Item(seq, index) == IF index >= 0 THEN seq[index + 1] ELSE seq[Len(seq) + index + 1]

CbNext == <<"next", <<>>>>
CbPrev == <<"prev", <<>>>>
CbRestart == <<"restart", <<>>>>
CbDownload(index) == <<"download_", Digits(index)>>

\* the inline keyboard send_result builds for the session's current result
Keyboard(sess) ==
    LET n == Len(sess.results)
        index == sess.index
        song == Item(sess.results, index)
    IN  (IF index > 0 THEN {CbPrev} ELSE {})
        \cup (IF index < n - 1 THEN {CbNext} ELSE {})
        \cup (IF song.videoId # <<>> THEN {CbDownload(index)} ELSE {})
        \cup (IF index = n - 1 THEN {CbRestart} ELSE {})

\* send_result: nothing is sent for an empty result list, nor when
\* results[index] raises
send_result(u, ud) ==
    IF ud[u] = NoSession \/ ud[u].results = <<>> \/ ~HasItem(ud[u].results, ud[u].index)
    THEN buttons
    ELSE [buttons EXCEPT ![u] = @ \cup Keyboard(ud[u])]

(***************************************************************************)
(* Updates and handlers.                                                   *)
(***************************************************************************)
NoData == <<"", <<>>>>

NoRun == [ song |-> [title |-> <<>>, videoId |-> <<>>],
           video_id |-> <<>>,
           base_out |-> <<>>,
           probe_i |-> 0,
           probe_used_url |-> <<"", <<>>>>,
           probe_errors |-> <<>>,
           formats |-> <<>>,
           chosen_format |-> "",
           try_i |-> 0,
           fmt_i |-> 0,
           url_i |-> 0,
           download_errors |-> <<>>,
           last_exc |-> <<>>,
           sent |-> <<>>,
           reports |-> 0,
           tg_raised |-> FALSE,
           call |-> "none",
           calls |-> <<>>,
           dir_before |-> {} ]

Idle == [pc |-> "idle", id |-> 0, user |-> 0, kind |-> "", data |-> NoData, run |-> NoRun]

NoReturn == [h |-> Idle, outcome |-> "none", files |-> {}, removed |-> {}]
NoLast == [id |-> 0, user |-> 0, step |-> "none", found |-> <<>>]
NoNav == [phase |-> "none", user |-> 0, start |-> 0]

\* "next" without its range test
NextIndexUnguarded(data) == data.index + 1

\* a "prev" that leaves the index where it is
PrevIndexStays(data) == data.index

\* button_callback, "next" (lines 454-455)
NextIndex(data) ==
    IF data.index < Len(data.results) - 1 THEN data.index + 1 ELSE data.index

\* button_callback, "prev" (lines 459-460)
PrevIndex(data) ==
    IF data.index > 0 THEN data.index - 1 ELSE data.index

\* a handled event of requester u that is no navigation ends u's next/prev pair
NavOther(u) == IF nav.user = u THEN NoNav ELSE nav

Init ==
    /\ ytmusic \in BOOLEAN
    /\ user_data = [u \in Users |-> NoSession]
    /\ files = {}
    /\ buttons = [u \in Users |-> {}]
    /\ update_queue = <<>>
    /\ n_updates = 0
    /\ handler = Idle
    /\ last = NoLast
    /\ nav = NoNav
    /\ returned = NoReturn
    /\ fmt_in = <<>>
    /\ fmt_out = ""

\* The webhook receives an update and puts it on the update queue: a /start
\* command, a text message, or a press of a button that was sent to the user.
Receive(u, kind, data) ==
    /\ n_updates < MaxUpdates
    /\ \/ kind = "start" /\ data = NoData
       \/ kind = "text" /\ data = NoData
       \/ kind = "callback" /\ data \in buttons[u]
    /\ n_updates' = n_updates + 1
    /\ update_queue' = Append(update_queue,
                              [id |-> n_updates + 1, user |-> u, kind |-> kind, data |-> data])
    /\ UNCHANGED <<ytmusic, user_data, files, buttons, handler, last, nav, returned,
                   fmt_in, fmt_out>>

\* The Application takes the next update off the queue and calls its handler.
\* It is built without concurrent_updates and the handlers are registered
\* blocking, so an update is taken only when no handler is in flight.
Dispatch ==
    /\ update_queue # <<>>
    /\ handler = Idle
    /\ handler' = [Idle EXCEPT !.pc = "entry",
                               !.id = Head(update_queue).id,
                               !.user = Head(update_queue).user,
                               !.kind = Head(update_queue).kind,
                               !.data = Head(update_queue).data]
    /\ update_queue' = Tail(update_queue)
    /\ last' = NoLast
    /\ returned' = NoReturn
    /\ UNCHANGED <<ytmusic, user_data, files, buttons, n_updates, nav, fmt_in, fmt_out>>

start ==
    /\ handler.pc = "entry" /\ handler.kind = "start"
    /\ user_data' = [user_data EXCEPT ![handler.user] = NewSession(<<>>)]
    /\ handler' = Idle
    /\ last' = [id |-> handler.id, user |-> handler.user, step |-> "start", found |-> <<>>]
    /\ nav' = NavOther(handler.user)
    /\ UNCHANGED <<ytmusic, files, buttons, update_queue, n_updates, returned,
                   fmt_in, fmt_out>>

\* search_song.  ytmusic.search raises, or returns the list search_results;
\* it is not called (raises = FALSE, search_results = <<>>) when ytmusic is None.
search_song(raises, search_results) ==
    /\ handler.pc = "entry" /\ handler.kind = "text"
    /\ LET u == handler.user
           step == IF ~ytmusic THEN "search_unavailable"
                   ELSE IF raises THEN "search_raised"
                   ELSE IF search_results = <<>> THEN "search_empty"
                   ELSE "search_found"
           ud == IF step = "search_found"
                 THEN [user_data EXCEPT ![u] = NewSession(SongList(search_results))]
                 ELSE user_data
       IN  /\ (~ytmusic \/ raises) => search_results = <<>>
           /\ ~ytmusic => ~raises
           /\ user_data' = ud
           /\ buttons' = IF step = "search_found" THEN send_result(u, ud) ELSE buttons
           /\ last' = [id |-> handler.id, user |-> u, step |-> step,
                       found |-> search_results]
           /\ nav' = NavOther(u)
    /\ handler' = Idle
    /\ UNCHANGED <<ytmusic, files, update_queue, n_updates, returned, fmt_in, fmt_out>>

(***************************************************************************)
(* Download + probe logic: handle_download.  The coroutine is cut at its   *)
(* run_in_executor awaits: one action per return of a worker call, which   *)
(* runs the code up to the next worker call or to the return.              *)
(***************************************************************************)
url_primary(video_id) == <<"https://www.youtube.com/watch?v=", video_id>>
url_music(video_id) == <<"https://music.youtube.com/watch?v=", video_id>>

\* the probe loop with the companion endpoint first
ProbeUrlsMusicFirst(video_id) == <<url_music(video_id), url_primary(video_id)>>

\* for probe_url in (url_primary, url_music)
ProbeUrls(video_id) == <<url_primary(video_id), url_music(video_id)>>

\* f"{safe_title}_{video_id}"
BaseOut(song) == sanitize_filename(song.title) \o <<"_">> \o song.videoId

Mp3Ext == <<"m","p","3">>

\* os.path.join(DOWNLOADS_DIR, f"{base_out}.{ext}"), as a name in DOWNLOADS_DIR
OutName(base_out, ext) == base_out \o <<".">> \o ext

\* what yt-dlp may write for outtmpl base_out.%(ext)s: the mp3, and the
\* downloaded stream the mp3 is extracted from
OutExts == { Mp3Ext, <<"m","4","a">> }
OutNames(base_out) == {OutName(base_out, e) : e \in OutExts}

\* os.path.exists
Exists(fs, name) == \E f \in fs : f.name = name

\* the primitive writes the names W ('overwrites': False keeps a file that exists)
Write(fs, W, id) == fs \cup {[name |-> n, by |-> id] : n \in {m \in W : ~Exists(fs, m)}}

\* os.remove(name): the file it deletes
Removed(fs, name) == {f \in fs : f.name = name}

\* the formats a probe may report
ProbeFormats ==
    { <<[ext |-> "webm", acodec |-> "opus", vcodec |-> "none"]>>,
      <<[ext |-> "mp4", acodec |-> "aac", vcodec |-> "avc1"],
        [ext |-> "m4a", acodec |-> "aac", vcodec |-> "none"]>> }

\* the fallback chain with webm before m4a
fallback_chain_webm_first == << "bestaudio[ext=webm]/bestaudio/best",
                                "bestaudio[ext=m4a]/bestaudio/best",
                                "bestaudio/best",
                                "best" >>

fallback_chain == << "bestaudio[ext=m4a]/bestaudio/best",
                     "bestaudio[ext=webm]/bestaudio/best",
                     "bestaudio/best",
                     "best" >>

\* what a step of handle_download leaves: the handler goes on (Go), or
\* handle_download returns (Ret) having deleted the files removed
Go(h, fs) == [handler |-> h, files |-> fs, returned |-> returned]
Ret(h, outcome, fs, removed) ==
    [handler |-> Idle, files |-> fs \ removed,
     returned |-> [h |-> h, outcome |-> outcome, files |-> fs \ removed,
                   removed |-> removed]]

\* loop.run_in_executor(None, probe | download | dl2, url)
IssueCall(h, kind, url, fmt) ==
    [h EXCEPT !.pc = kind,
              !.run.call = "pending",
              !.run.calls = Append(@, [kind |-> kind, url |-> url, fmt |-> fmt,
                                       result |-> "pending"])]

\* the worker call in flight has returned (result "ok") or raised ("fault")
Returned(h, result) ==
    [h EXCEPT !.run.call = "none",
              !.run.calls = [@ EXCEPT ![Len(@)].result = result]]

\* the directory scan of lines 430-431: the files whose name contains video_id
CleanupScan(fs, video_id) == {f \in fs : Contains(f.name, video_id)}

\* a message that tells the requester of the failure was sent
Reported(h) == [h EXCEPT !.run.reports = @ + 1]

\* a call of the Telegram API raised
TgRaised(h) == [h EXCEPT !.run.tg_raised = TRUE]

\* except Exception (lines 423-435): report (the edit_text of line 426
\* returns, or raises and is passed over), then remove every file the scan finds
Except(h, fs, removed) ==
    LET gone == removed \cup CleanupScan(fs \ removed, h.run.video_id)
    IN  { Ret(Reported(h), "exception", fs, gone),
          Ret(TgRaised(h), "exception", fs, gone) }

\* await status_msg.edit_text(<failure message>); return.  The Telegram call
\* returns, or raises inside the try block
Report(h, outcome, fs) ==
    {Ret(Reported(h), outcome, fs, {})} \cup Except(TgRaised(h), fs, {})

\* handle_download without its test of the video id (lines 266-268)
HdEnterNoIdTest(h, song_index) ==
    LET results == ResultsOf(h.user)
    IN  IF results = <<>> \/ song_index >= Len(results)
        THEN Ret(Reported(h), "no_song", files, {})
        ELSE IF ~HasItem(results, song_index)
        THEN Ret(Reported(h), "invalid_request", files, {})
        ELSE LET song == Item(results, song_index)
             IN  Go(IssueCall([h EXCEPT !.run.song = song,
                                        !.run.video_id = song.videoId,
                                        !.run.base_out = BaseOut(song),
                                        !.run.probe_i = 1,
                                        !.run.dir_before = files],
                              "probe", ProbeUrls(song.videoId)[1], ""),
                    files)

\* handle_download up to its first probe (lines 257-301); an IndexError of
\* results[song_index] is button_callback's "Invalid download request."
HdEnter(h, song_index) ==
    LET results == ResultsOf(h.user)
    IN  IF results = <<>> \/ song_index >= Len(results)
        THEN Ret(Reported(h), "no_song", files, {})
        ELSE IF ~HasItem(results, song_index)
        THEN Ret(Reported(h), "invalid_request", files, {})
        ELSE LET song == Item(results, song_index)
                 video_id == song.videoId
             IN  IF video_id = <<>>
                 THEN Ret(Reported(h), "no_video_id", files, {})
                 ELSE Go(IssueCall([h EXCEPT !.run.song = song,
                                             !.run.video_id = video_id,
                                             !.run.base_out = BaseOut(song),
                                             !.run.probe_i = 1,
                                             !.run.dir_before = files],
                                   "probe", ProbeUrls(video_id)[1], ""),
                         files)

\* try_urls without its test of probe_used_url
try_urls_all(run) == <<run.probe_used_url>> \o ProbeUrls(run.video_id)

\* try_urls (line 347)
try_urls(run) ==
    <<run.probe_used_url>>
    \o (IF run.probe_used_url \notin Range(ProbeUrls(run.video_id))
        THEN ProbeUrls(run.video_id) ELSE <<>>)

\* the probe loop goes on after a failed probe (lines 299-312)
NextProbe(h, fs) ==
    LET run == h.run
    IN  IF run.probe_i < Len(ProbeUrls(run.video_id))
        THEN {Go(IssueCall([h EXCEPT !.run.probe_i = @ + 1],
                           "probe", ProbeUrls(run.video_id)[run.probe_i + 1], ""), fs)}
        ELSE Report(h, "probe_failed", fs)

\* a probe returned info (lines 302-303, 314-351); the edit_text of line 339
\* returns or raises
ProbeOk(h, fs, formats) ==
    LET h1 == [h EXCEPT !.run.probe_used_url = ProbeUrls(h.run.video_id)[h.run.probe_i],
                        !.run.formats = formats,
                        !.run.chosen_format = choose_format_from_formats(formats),
                        !.run.try_i = 1]
    IN  {Go(IssueCall(h1, "download", try_urls(h1.run)[1], h1.run.chosen_format), fs)}
        \cup Except(TgRaised(h1), fs, {})

\* after probe() returned or raised
AfterProbe(h, fs, ok, formats) ==
    IF ok THEN ProbeOk(h, fs, formats)
    ELSE NextProbe([h EXCEPT !.run.probe_errors =
                                 Append(@, ProbeUrls(h.run.video_id)[h.run.probe_i])], fs)

\* the mp3 files the directory scan of lines 393-396 may stop at
ScanMatches(fs, video_id) ==
    {f.name : f \in {g \in fs : /\ Contains(g.name, video_id)
                                 /\ EndsWith(Lower(g.name), <<".">> \o Mp3Ext)}}

\* the values mp3_file may have after lines 390-396 (os.listdir lists in any order)
Mp3Files(fs, run) ==
    LET expected == OutName(run.base_out, Mp3Ext)
    IN  IF Exists(fs, expected) \/ ScanMatches(fs, run.video_id) = {}
        THEN {expected}
        ELSE ScanMatches(fs, run.video_id)

\* upload mp3_file and remove it (lines 398-421).  Each Telegram call
\* returns or raises: the edit_text of line 399, send_audio (whose finally
\* removes the mp3 before the except block runs), the edit_text of line 421
Upload(h, fs, mp3_file) ==
    IF Exists(fs, mp3_file)
    THEN {Ret([h EXCEPT !.run.sent = mp3_file], "success", fs, Removed(fs, mp3_file))}
         \cup Except(TgRaised(h), fs, {})
         \cup Except(TgRaised(h), fs, Removed(fs, mp3_file))
    ELSE Report(h, "mp3_missing", fs)

\* locate the mp3, then upload it (lines 389-421)
Deliver(h, fs) == UNION {Upload(h, fs, mp3_file) : mp3_file \in Mp3Files(fs, h.run)}

\* the fallback chain goes on after a failed dl2 (lines 369-387)
NextFallback(h, fs) ==
    LET run == h.run
    IN  IF run.url_i < Len(ProbeUrls(run.video_id))
        THEN {Go(IssueCall([h EXCEPT !.run.url_i = @ + 1],
                           "fallback", ProbeUrls(run.video_id)[run.url_i + 1],
                           fallback_chain[run.fmt_i]), fs)}
        ELSE IF run.fmt_i < Len(fallback_chain)
        THEN {Go(IssueCall([h EXCEPT !.run.fmt_i = @ + 1, !.run.url_i = 1],
                           "fallback", ProbeUrls(run.video_id)[1],
                           fallback_chain[run.fmt_i + 1]), fs)}
        ELSE Report(h, "download_failed", fs)

\* the first download loop goes on after a failed download (lines 349-377)
NextDownload(h, fs) ==
    LET run == h.run
    IN  IF run.try_i < Len(try_urls(run))
        THEN {Go(IssueCall([h EXCEPT !.run.try_i = @ + 1],
                           "download", try_urls(run)[run.try_i + 1], run.chosen_format), fs)}
        ELSE {Go(IssueCall([h EXCEPT !.run.fmt_i = 1, !.run.url_i = 1],
                           "fallback", ProbeUrls(run.video_id)[1], fallback_chain[1]), fs)}

\* a download() whose exception is not caught in the loop and reaches the
\* except block of handle_download
AfterDownloadUncaught(h, fs, ok) ==
    IF ok THEN Deliver(h, fs) ELSE Except(h, fs, {})

\* after download() returned or raised (lines 349-361, 389)
AfterDownload(h, fs, ok) ==
    IF ok THEN Deliver(h, fs)
    ELSE NextDownload([h EXCEPT !.run.download_errors =
                                    Append(@, try_urls(h.run)[h.run.try_i])], fs)

\* the fallback loops without their break: a dl2() that succeeded is followed
\* by the attempts that remain
AfterFallbackNoBreak(h, fs, ok) ==
    IF ok /\ h.run.url_i = Len(ProbeUrls(h.run.video_id))
          /\ h.run.fmt_i = Len(fallback_chain)
    THEN Deliver(h, fs)
    ELSE NextFallback([h EXCEPT !.run.last_exc = ProbeUrls(h.run.video_id)[h.run.url_i]], fs)

\* after dl2() returned or raised (lines 375-389)
AfterFallback(h, fs, ok) ==
    IF ok THEN Deliver(h, fs)
    ELSE NextFallback([h EXCEPT !.run.last_exc = ProbeUrls(h.run.video_id)[h.run.url_i]], fs)

\* a step of handle_download takes effect
Step(r) ==
    /\ handler' = r.handler
    /\ files' = r.files
    /\ returned' = r.returned

\* button_callback, with handle_download up to its first worker call
button_callback ==
    /\ handler.pc = "entry" /\ handler.kind = "callback"
    /\ LET u == handler.user
           data == user_data[u]
           action == handler.data
           mark(step) == [id |-> handler.id, user |-> u, step |-> step, found |-> <<>>]
       IN  IF ResultsOf(u) = <<>>
           THEN /\ last' = mark("no_results")
                /\ nav' = NavOther(u)
                /\ handler' = Idle
                /\ UNCHANGED <<user_data, buttons, files, returned>>
           ELSE IF action = CbNext
           THEN /\ LET ud == [user_data EXCEPT ![u].index = NextIndex(data)]
                   IN  /\ user_data' = ud
                       /\ buttons' = IF ud # user_data THEN send_result(u, ud) ELSE buttons
                /\ last' = mark("next")
                /\ nav' = [phase |-> "next", user |-> u, start |-> data.index]
                /\ handler' = Idle
                /\ UNCHANGED <<files, returned>>
           ELSE IF action = CbPrev
           THEN /\ LET ud == [user_data EXCEPT ![u].index = PrevIndex(data)]
                   IN  /\ user_data' = ud
                       /\ buttons' = IF ud # user_data THEN send_result(u, ud) ELSE buttons
                /\ last' = mark("prev")
                /\ nav' = IF nav.phase = "next" /\ nav.user = u
                          THEN [nav EXCEPT !.phase = "next_prev"]
                          ELSE NavOther(u)
                /\ handler' = Idle
                /\ UNCHANGED <<files, returned>>
           ELSE IF action = CbRestart
           THEN /\ user_data' = [user_data EXCEPT ![u] = NewSession(<<>>)]
                /\ last' = mark("restart")
                /\ nav' = NavOther(u)
                /\ handler' = Idle
                /\ UNCHANGED <<buttons, files, returned>>
           ELSE /\ action[1] = "download_"
                /\ Step(HdEnter(handler, ParseInt(action[2])))
                /\ last' = mark("download")
                /\ nav' = NavOther(u)
                /\ UNCHANGED <<user_data, buttons>>
    /\ UNCHANGED <<ytmusic, update_queue, n_updates, fmt_in, fmt_out>>

\* the worker running probe() returns info (ok, with its formats) or raises
ProbeReturns(ok, formats) ==
    /\ handler.pc = "probe" /\ handler.run.call = "pending"
    /\ \E r \in AfterProbe(Returned(handler, IF ok THEN "ok" ELSE "fault"),
                           files, ok, formats) : Step(r)
    /\ UNCHANGED <<ytmusic, user_data, buttons, update_queue, n_updates, last, nav,
                   fmt_in, fmt_out>>

\* the worker running download() returns (ok) or raises, having written W
DownloadReturns(ok, W) ==
    /\ handler.pc = "download" /\ handler.run.call = "pending"
    /\ \E r \in AfterDownload(Returned(handler, IF ok THEN "ok" ELSE "fault"),
                              Write(files, W, handler.id), ok) : Step(r)
    /\ UNCHANGED <<ytmusic, user_data, buttons, update_queue, n_updates, last, nav,
                   fmt_in, fmt_out>>

\* the worker running dl2() returns (ok) or raises, having written W
FallbackReturns(ok, W) ==
    /\ handler.pc = "fallback" /\ handler.run.call = "pending"
    /\ \E r \in AfterFallback(Returned(handler, IF ok THEN "ok" ELSE "fault"),
                              Write(files, W, handler.id), ok) : Step(r)
    /\ UNCHANGED <<ytmusic, user_data, buttons, update_queue, n_updates, last, nav,
                   fmt_in, fmt_out>>

\* the worker call in flight never returns (run_in_executor is awaited
\* without a timeout)
WorkerHangs ==
    /\ handler.run.call = "pending"
    /\ handler' = [handler EXCEPT !.run.call = "hung"]
    /\ UNCHANGED <<ytmusic, user_data, files, buttons, update_queue, n_updates, last, nav,
                   returned, fmt_in, fmt_out>>

Next ==
    \/ \E u \in Users : Receive(u, "start", NoData)
    \/ \E u \in Users : Receive(u, "text", NoData)
    \/ \E u \in Users : \E data \in buttons[u] : Receive(u, "callback", data)
    \/ Dispatch
    \/ start
    \/ \E answer \in SearchAnswers : search_song(FALSE, answer)
    \/ search_song(TRUE, <<>>)
    \/ button_callback
    \/ \E formats \in ProbeFormats : ProbeReturns(TRUE, formats)
    \/ ProbeReturns(FALSE, <<>>)
    \/ \E ok \in BOOLEAN, W \in SUBSET OutNames(handler.run.base_out) : DownloadReturns(ok, W)
    \/ \E ok \in BOOLEAN, W \in SUBSET OutNames(handler.run.base_out) : FallbackReturns(ok, W)
    \/ WorkerHangs

Spec == Init /\ [][Next]_vars

(***************************************************************************)
(* The program when every worker call returns: no call hangs, and the      *)
(* worker pool runs the call it was given, so that the awaiting handler is *)
(* resumed.                                                                *)
(***************************************************************************)
WorkerReturns ==
    \/ \E formats \in ProbeFormats : ProbeReturns(TRUE, formats)
    \/ ProbeReturns(FALSE, <<>>)
    \/ \E ok \in BOOLEAN, W \in SUBSET OutNames(handler.run.base_out) : DownloadReturns(ok, W)
    \/ \E ok \in BOOLEAN, W \in SUBSET OutNames(handler.run.base_out) : FallbackReturns(ok, W)

NextReturns ==
    \/ \E u \in Users : Receive(u, "start", NoData)
    \/ \E u \in Users : Receive(u, "text", NoData)
    \/ \E u \in Users : \E data \in buttons[u] : Receive(u, "callback", data)
    \/ Dispatch
    \/ start
    \/ \E answer \in SearchAnswers : search_song(FALSE, answer)
    \/ search_song(TRUE, <<>>)
    \/ button_callback
    \/ WorkerReturns

SpecReturns == Init /\ [][NextReturns]_vars /\ WF_vars(WorkerReturns)
(***************************************************************************)
(* The format selector on its own: Init draws a list of formats, the one   *)
(* action applies choose_format_from_formats to it.                        *)
(***************************************************************************)
FormatExts == {"m4a", "webm", "mp4", ""}
FormatAcodecs == {"opus", "aac", "mp3", "none", ""}
FormatVcodecs == {"none", "avc1"}
Formats == [ext : FormatExts, acodec : FormatAcodecs, vcodec : FormatVcodecs]

FormatLists == UNION {[1..n -> Formats] : n \in 0..MaxFormats}

InitFormat ==
    /\ ytmusic = TRUE
    /\ user_data = [u \in Users |-> NoSession]
    /\ files = {}
    /\ buttons = [u \in Users |-> {}]
    /\ update_queue = <<>>
    /\ n_updates = 0
    /\ handler = Idle
    /\ last = NoLast
    /\ nav = NoNav
    /\ returned = NoReturn
    /\ fmt_in \in FormatLists
    /\ fmt_out = ""

ChooseFormat ==
    /\ fmt_out = ""
    /\ fmt_out' = choose_format_from_formats(fmt_in)
    /\ UNCHANGED <<ytmusic, user_data, files, buttons, update_queue, n_updates, handler,
                   last, nav, returned, fmt_in>>

NextFormat == ChooseFormat

SpecFormat == InitFormat /\ [][NextFormat]_vars
(***************************************************************************)
(* The steps of the handler in flight.                                     *)
(***************************************************************************)
HandlerStep ==
    \/ start
    \/ \E answer \in SearchAnswers : search_song(FALSE, answer)
    \/ search_song(TRUE, <<>>)
    \/ button_callback
    \/ \E formats \in ProbeFormats : ProbeReturns(TRUE, formats)
    \/ ProbeReturns(FALSE, <<>>)
    \/ \E ok \in BOOLEAN, W \in SUBSET OutNames(handler.run.base_out) : DownloadReturns(ok, W)
    \/ \E ok \in BOOLEAN, W \in SUBSET OutNames(handler.run.base_out) : FallbackReturns(ok, W)

\* the handle_download run that returned last got as far as a video id
RunReturned == returned.outcome \notin {"none", "no_song", "invalid_request", "no_video_id"}

\* the files left at the return whose name contains the run's video id
LeftWithId == {f \in returned.files : Contains(f.name, returned.h.run.video_id)}

(***************************************************************************)
(* Properties.                                                             *)
(***************************************************************************)

\* C1: when a run of handle_download returns, DOWNLOADS_DIR holds at most
\* one file whose name contains the run's video id.
C1_AtMostOneFileLeft == RunReturned => Cardinality(LeftWithId) <= 1

\* C2: when a run returns on a failing path (all probes failed, all
\* downloads failed, mp3 not found, unexpected exception), no file whose
\* name contains the run's video id is left.
C2_FailureLeavesNoFile ==
    returned.outcome \in {"probe_failed", "download_failed", "mp3_missing", "exception"}
        => LeftWithId = {}

\* C3: whenever a requester's session has a non-empty result list, its
\* index is a position of the list: 0 <= index < len(results).
C3_IndexInBounds ==
    \A u \in Users :
        ResultsOf(u) # <<>> =>
            /\ 0 <= user_data[u].index
            /\ user_data[u].index < Len(user_data[u].results)

\* C3 witness: a second "next" of the same requester was handled with the
\* cursor already on the last of several results.
C3_NextAtLastResult ==
    /\ nav.phase = "next"
    /\ Len(ResultsOf(nav.user)) >= 2
    /\ nav.start = Len(ResultsOf(nav.user)) - 1
    /\ user_data[nav.user].index = nav.start

\* C4 as stated: a "next" followed by a "prev" of the same requester leaves
\* the index at the value it had before the "next".
C4_NextPrevRestores ==
    nav.phase = "next_prev" => user_data[nav.user].index = nav.start

\* C4 as amended: a "next" followed by a "prev" leaves the index at its
\* starting value, except that from the last position of a list of two or
\* more results the pair ends one position before it.
C4_NextPrevAmended ==
    nav.phase = "next_prev" =>
        user_data[nav.user].index =
            IF nav.start = Len(ResultsOf(nav.user)) - 1 /\ nav.start > 0
            THEN nav.start - 1
            ELSE nav.start

\* C4 witness: "next" then "prev" were handled from the middle position of
\* three results.
C4_PairFromMiddle ==
    /\ nav.phase = "next_prev"
    /\ Len(ResultsOf(nav.user)) = 3
    /\ nav.start = 1
    /\ user_data[nav.user].index = 1

\* C5: after a search for which the catalog returned a list (empty or not),
\* the requester's results are the songs of that list and the index is 0.
C5_SearchReplacesSession ==
    last.step \in {"search_empty", "search_found"} =>
        /\ ResultsOf(last.user) = SongList(last.found)
        /\ user_data[last.user] # NoSession => user_data[last.user].index = 0

\* C6: a worker call that never returns does not stall the run: the handler
\* can still take a step.
C6_HungCallTimesOut == handler.run.call = "hung" => ENABLED HandlerStep

\* C7: while a run waits for a worker call, an update that is on the queue
\* can be dispatched to its handler.
C7_RunDoesNotBlockUpdates ==
    (handler.run.call \in {"pending", "hung"} /\ update_queue # <<>>) => ENABLED Dispatch

\* C8: the files a run removes (the mp3 it selected, the files its cleanup
\* scan found) are files the run itself created.
C8_RunsKeepApart == \A f \in returned.removed : f.by = returned.h.id

\* a download or dl2 call that succeeded is the last call of the run
FetchOkIsLast(calls) ==
    \A i \in 1..Len(calls) :
        (calls[i].kind \in {"download", "fallback"} /\ calls[i].result = "ok")
            => i = Len(calls)

\* C9: in every run, running or returned, a fetch call that succeeded is
\* the last call the run issued, so that at most one fetch succeeds.
C9_SuccessfulFetchIsLast ==
    /\ FetchOkIsLast(handler.run.calls)
    /\ FetchOkIsLast(returned.h.run.calls)
    /\ \A calls \in {handler.run.calls, returned.h.run.calls} :
          Cardinality({i \in 1..Len(calls) : /\ calls[i].kind \in {"download", "fallback"}
                                              /\ calls[i].result = "ok"}) <= 1

\* C9 witness: a run delivered its audio after a fetch of the fallback chain
\* succeeded, with fallback attempts left untried.
C9_SuccessInFallback ==
    /\ returned.outcome = "success"
    /\ Len(returned.h.run.calls) >= 3
    /\ returned.h.run.calls[Len(returned.h.run.calls)].kind = "fallback"
    /\ returned.h.run.calls[Len(returned.h.run.calls)].result = "ok"
    /\ returned.h.run.fmt_i < Len(fallback_chain)

\* the selector the priority rule gives for a list of variants
RefSelector(variants) ==
    LET n == Len(variants)
    IN  IF n = 0 THEN "bestaudio/best"
        ELSE IF \E i \in 1..n : variants[i].ext = "m4a"
             THEN "bestaudio[ext=m4a]/bestaudio/best"
        ELSE IF \E i \in 1..n : variants[i].ext = "webm"
             THEN "bestaudio[ext=webm]/bestaudio/best"
        ELSE IF \E i \in 1..n : variants[i].acodec = "opus"
             THEN "bestaudio[acodec=opus]/bestaudio/best"
        ELSE IF \E i \in 1..n : variants[i].acodec = "aac"
             THEN "bestaudio[acodec=aac]/bestaudio/best"
        ELSE IF \E i \in 1..n : variants[i].acodec = "mp3"
             THEN "bestaudio[acodec=mp3]/bestaudio/best"
        ELSE "bestaudio/best"

\* the reorderings of a list
Reorderings(s) == {[i \in 1..Len(s) |-> s[p[i]]] : p \in Permutations(1..Len(s))}

\* C10: the selector chosen for a list of variants is the one the priority
\* rule gives (m4a container, webm container, opus, aac, mp3 codec, else
\* best audio), and every reordering of the list gets the same selector.
C10_SelectorIsPriorityRule ==
    fmt_out # "" =>
        /\ fmt_out = RefSelector(fmt_in)
        /\ \A p \in Reorderings(fmt_in) : choose_format_from_formats(p) = fmt_out

\* C10 witness: an m4a variant listed after a webm/opus variant was given
\* the m4a selector.
C10_M4aBehindWebm ==
    /\ Len(fmt_in) = 2
    /\ fmt_in[1].ext = "webm" /\ fmt_in[1].acodec = "opus"
    /\ fmt_in[2].ext = "m4a" /\ fmt_in[2].acodec = "mp3"
    /\ fmt_out = "bestaudio[ext=m4a]/bestaudio/best"

\* the calls of a run that are probes, and those that are fetches
ProbeCalls(calls) == SelectSeq(calls, LAMBDA c : c.kind = "probe")
FetchCalls(calls) == SelectSeq(calls, LAMBDA c : c.kind \in {"download", "fallback"})

\* C11: a run ends in success only having sent the file named
\* {sanitized title}_{video id}.mp3 of the run's own track.
C11_SuccessSendsNamedArtifact ==
    returned.outcome = "success" =>
        returned.h.run.sent =
            sanitize_filename(returned.h.run.song.title) \o <<"_">>
                \o returned.h.run.song.videoId \o <<".", "m", "p", "3">>

\* C12: a run ends with "MP3 file not found" only when no fetch attempt is
\* left untried: the chosen selector and the four fallback selectors on both
\* endpoints have all been tried.
C12_MissingMp3IsNotFatal ==
    returned.outcome = "mp3_missing" =>
        Len(FetchCalls(returned.h.run.calls)) = 1 + 4 * 2

\* C13: a run in which no call of the Telegram API raised, whatever the
\* probe and download calls did, ends in exactly one of: the audio was sent
\* and no failure was reported, or one failure was reported and no audio was
\* sent; no exception reaches the except block or leaves handle_download.
C13_OneTerminalOutcome ==
    (returned.outcome # "none" /\ ~returned.h.run.tg_raised) =>
        /\ returned.outcome \in {"success", "probe_failed", "download_failed",
                                 "mp3_missing", "no_song", "invalid_request",
                                 "no_video_id"}
        /\ returned.outcome = "success" =>
              returned.h.run.sent # <<>> /\ returned.h.run.reports = 0
        /\ returned.outcome # "success" =>
              returned.h.run.sent = <<>> /\ returned.h.run.reports = 1

\* C13 witness: a run whose two probes were a fault then a success and whose
\* fetches were faults up to a success in the fallback chain delivered its
\* audio.
C13_DeliveredAfterFaults ==
    /\ returned.outcome = "success"
    /\ ~returned.h.run.tg_raised
    /\ Len(returned.h.run.calls) >= 4
    /\ returned.h.run.calls[1].result = "fault"
    /\ returned.h.run.calls[3].result = "fault"

\* C14: the track a download run fetches is the one at the cursor of the
\* requester's session as it is while the request is handled.
C14_FetchesCursorTrack ==
    handler.pc \in {"probe", "download", "fallback"} =>
        /\ HasItem(ResultsOf(handler.user), user_data[handler.user].index)
        /\ handler.run.song =
              Item(ResultsOf(handler.user), user_data[handler.user].index)

\* C15: a run that ends with all probes failed, or with all downloads
\* failed, has recorded as many failure reasons as it made attempts, the
\* last of them that of the last attempt.
C15_ReasonsMatchAttempts ==
    LET run == returned.h.run
    IN  /\ returned.outcome = "probe_failed" =>
              /\ Len(run.probe_errors) = Len(ProbeCalls(run.calls))
              /\ run.probe_errors[Len(run.probe_errors)] = run.calls[Len(run.calls)].url
        /\ returned.outcome = "download_failed" =>
              /\ Len(run.download_errors) = Len(FetchCalls(run.calls))
              /\ run.download_errors[Len(run.download_errors)] = run.calls[Len(run.calls)].url

\* the probes of a run come first, one call at a time, www.youtube.com and
\* then, after a fault only, music.youtube.com; a probe that returned info
\* is the last probe
ProbesInOrder(run) ==
    LET calls == run.calls
        n == Len(ProbeCalls(calls))
    IN  /\ n <= 2
        /\ \A i \in 1..Len(calls) : calls[i].kind = "probe" <=> i <= n
        /\ \A i \in 1..Len(calls) : calls[i].result = "pending" => i = Len(calls)
        /\ n >= 1 => calls[1].url = <<"https://www.youtube.com/watch?v=", run.video_id>>
        /\ n = 2 => /\ calls[2].url = <<"https://music.youtube.com/watch?v=", run.video_id>>
                    /\ calls[1].result = "fault"
        /\ \A i \in 1..n : calls[i].result = "ok" => i = n

\* C16: the probes of every run, running or returned, are issued one at a
\* time, the default endpoint first and the companion endpoint only after
\* the first probe failed; a probe that succeeds ends probing, and a run
\* whose first probe failed goes on to the second probe before it ends.
C16_ProbesInFixedOrder ==
    /\ handler.run.video_id # <<>> => ProbesInOrder(handler.run)
    /\ returned.h.run.video_id # <<>> =>
          /\ ProbesInOrder(returned.h.run)
          /\ returned.h.run.calls[1].result = "fault" =>
                Len(ProbeCalls(returned.h.run.calls)) = 2

\* C16 witness: the probe of the default endpoint failed, the probe of the
\* companion endpoint succeeded, and the run went on to its first fetch.
C16_SecondProbeAfterFault ==
    /\ Len(handler.run.calls) = 3
    /\ handler.run.calls[1].result = "fault"
    /\ handler.run.calls[2].kind = "probe" /\ handler.run.calls[2].result = "ok"
    /\ handler.run.calls[3].kind = "download"

\* the secondary selectors, in the order the claim gives
SecondarySelectors ==
    << "bestaudio[ext=m4a]/bestaudio/best", "bestaudio[ext=webm]/bestaudio/best",
       "bestaudio/best", "best" >>

\* the first fetch of a run uses the probed locator and the selector chosen
\* for the probed formats, and every fetch but the first follows a fault
FirstFetchAsProbed(run) ==
    LET F == FetchCalls(run.calls)
    IN  /\ F # <<>> =>
              /\ F[1].url = run.probe_used_url
              /\ F[1].url = run.calls[Len(ProbeCalls(run.calls))].url
              /\ F[1].fmt = choose_format_from_formats(run.formats)
        /\ \A i \in 2..Len(F) : F[i - 1].result = "fault"

\* C17 as stated, for one run: the i-th secondary attempt uses the i-th
\* secondary selector on the probed locator.
FallbackOnProbedLocator(run) ==
    LET F == FetchCalls(run.calls)
    IN  /\ FirstFetchAsProbed(run)
        /\ Len(F) <= 1 + Len(SecondarySelectors)
        /\ \A i \in 2..Len(F) :
              /\ F[i].fmt = SecondarySelectors[i - 1]
              /\ F[i].url = run.probe_used_url

\* C17 as amended, for one run: each secondary selector is tried on the
\* default endpoint and then on the companion endpoint.
FallbackOnBothEndpoints(run) ==
    LET F == FetchCalls(run.calls)
    IN  /\ FirstFetchAsProbed(run)
        /\ Len(F) <= 1 + 2 * Len(SecondarySelectors)
        /\ \A i \in 2..Len(F) :
              /\ F[i].fmt = SecondarySelectors[((i - 2) \div 2) + 1]
              /\ F[i].url = IF (i - 2) % 2 = 0
                            THEN <<"https://www.youtube.com/watch?v=", run.video_id>>
                            ELSE <<"https://music.youtube.com/watch?v=", run.video_id>>

\* C17 as stated: after a probe succeeded the first fetch uses the probed
\* locator and the chosen selector, and the secondary selectors follow in the
\* order m4a, webm, bestaudio/best, best, each on the probed locator.
C17_FallbackOnProbedLocator ==
    FallbackOnProbedLocator(handler.run) /\ FallbackOnProbedLocator(returned.h.run)

\* C17 as amended: the same, but each secondary selector is tried on the
\* default endpoint and then on the companion endpoint of the same video id,
\* whichever endpoint the probe succeeded on, before the next selector.
C17_FallbackOnBothEndpoints ==
    FallbackOnBothEndpoints(handler.run) /\ FallbackOnBothEndpoints(returned.h.run)

\* C17 witness: the probe succeeded on the companion endpoint and the run
\* has got to the second secondary selector.
C17_SecondSelectorAfterMusicProbe ==
    /\ handler.run.probe_used_url[1] = "https://music.youtube.com/watch?v="
    /\ Len(FetchCalls(handler.run.calls)) = 4
    /\ handler.run.call = "pending"

\* C18: a run whose probes all failed has issued no fetch call and returns
\* with the download directory as it was when the run started.
C18_ProbesFailedDirUnchanged ==
    LET run == returned.h.run
    IN  (/\ returned.outcome # "none"
         /\ Len(ProbeCalls(run.calls)) = 2
         /\ \A i \in 1..2 : run.calls[i].result = "fault")
        => /\ FetchCalls(run.calls) = <<>>
           /\ returned.files = run.dir_before

\* a run has issued at most 2 probe calls and at most 9 fetch calls
CallsBounded(run) ==
    /\ Len(ProbeCalls(run.calls)) <= 2
    /\ Len(FetchCalls(run.calls)) <= 9

\* C20: every run, running or returned, has issued at most 2 probe calls and
\* at most 9 fetch calls, and, every worker call returning, the run comes to
\* its return: a run that waits for a call is resumed by the call's return,
\* and each step of a run either ends the run or issues one more of the
\* boundedly many calls.
C20_RetriesBoundedRunEnds ==
    /\ [](/\ CallsBounded(handler.run) /\ CallsBounded(returned.h.run)
          /\ handler.pc \in {"probe", "download", "fallback"} =>
                handler.run.call = "pending" /\ ENABLED WorkerReturns)
    /\ [][handler.pc \in {"probe", "download", "fallback"} =>
             \/ handler' = handler
             \/ handler' = Idle /\ returned'.outcome # "none"
             \/ Len(handler'.run.calls) = Len(handler.run.calls) + 1]_vars

\* C20 witness: a run has returned after 2 probe calls and 9 fetch calls.
C20_AllAttemptsMade ==
    /\ returned.outcome # "none"
    /\ Len(ProbeCalls(returned.h.run.calls)) = 2
    /\ Len(FetchCalls(returned.h.run.calls)) = 9

\* the handler in flight is at a download request that is to be refused: the
\* requester has no session or no results, the requested index is no
\* position of the results, or the track at that position has no video id
DownloadRefused ==
    /\ handler.pc = "entry" /\ handler.kind = "callback"
    /\ handler.data[1] = "download_"
    /\ LET results == IF user_data[handler.user] = NoSession
                      THEN <<>> ELSE user_data[handler.user].results
           index == ParseInt(handler.data[2])
       IN  \/ results = <<>>
           \/ index < 0
           \/ index >= Len(results)
           \/ results[index + 1].videoId = <<>>

\* C21: the handling of a download request that is to be refused issues no
\* probe or fetch call, creates no file, leaves every session as it was and
\* ends with one failure message to the requester.
C21_RefusedRequestDoesNothing ==
    [][(DownloadRefused /\ handler' # handler) =>
          /\ handler' = Idle
          /\ user_data' = user_data
          /\ files' = files
          /\ \/ last'.step = "no_results" /\ returned' = NoReturn
             \/ /\ returned'.outcome \in {"no_song", "invalid_request", "no_video_id"}
                /\ returned'.h.run.calls = <<>>
                /\ returned'.h.run.reports = 1]_vars

\* C21 witness: a download button of an earlier search was pressed after a
\* newer search put a track without video id at its position, and the
\* request was refused.
C21_StaleButtonOnTrackWithoutId ==
    /\ returned.outcome = "no_video_id"
    /\ last.step = "download"
    /\ Item(ResultsOf(last.user), ParseInt(returned.h.data[2])).videoId = <<>>
====
